---- MODULE Spec2Model ----
(***************************************************************************)
(* A model of aind-codeocean-api: the auto-paginating search of            *)
(* CodeOceanClient (codeocean.py), its one-request operations, and the     *)
(* layered resolution of CodeOceanCredentials (credentials.py).            *)
(***************************************************************************)
EXTENDS Integers, Sequences, FiniteSets, TLC

(***************************************************************************)
(* Bounds of the model.                                                    *)
(***************************************************************************)
\* pages one call of search_all_data_assets fetches successfully
MaxPages == 2
\* items in one page of results
MaxPageLen == 2
\* operations called one after the other on one client
MaxCalls == 2
\* trailing slashes of a domain given by a source
MaxSlashes == 1
\* the longest string saved to a file or given to a client
MaxStrLen == 2
\* the longest list in a request
MaxListLen == 2

(***************************************************************************)
(* Program constants.                                                      *)
(***************************************************************************)
\* CodeOceanClient._MAX_SEARCH_BATCH_REQUEST
MAX_SEARCH_BATCH_REQUEST == 1000
max_retries_two == 3 - 1
\* get_page(..., max_retries: int = 3)
max_retries == 3
\* the cap of the back-off, min(retry**2, 15)
MaxBackoff == 15

\* statuses the server answers with other than 200
ErrorStatuses == {500, 503}
\* the data assets a page can list
Items == {"A", "B"}

VARIABLES
    \* ---- search_all_data_assets / _paginate_data_assets / get_page
    pc,           \* position of the call: idle, loop, retry, done, raised
    session,      \* the requests.Session of the with block: none, open, closed
    has_more,     \* local of _paginate_data_assets
    start_index,  \* local of _paginate_data_assets
    all_results,  \* local of search_all_data_assets
    retry,        \* local of get_page
    rsp,          \* local of get_page: the last response received
    result,       \* what the call returned or raised
    trace,        \* for every call of get_page, in order, its Session.get
                  \* and sleep calls, in order
    pages,        \* the page bodies get_page returned, in order
    assets,       \* the matching data assets the server holds, in its order
    \* ---- the operations that make one request
    http_log,     \* every requests.get/post/put/patch/delete made, in order
    server_rsp,   \* the response the server gave to the last of them
    ret,          \* what the last operation called returned or raised
    calls,        \* the number of operations called
    req_args,     \* the arguments each of these operations was called
                  \* with, in order
    \* ---- CodeOceanCredentials
    env,          \* os.environ: the CODEOCEAN_ variables that are set
    fs,           \* the credentials files on disk, by path
    secret,       \* the secret in AWS Secrets Manager
    kwargs,       \* the arguments of the construction of creds
    seen_fs,      \* the files on disk when it ran
    opened,       \* the files it opened, in order
    creds,        \* the object it built, or the error it raised
    \* ---- save_credentials_to_file, and CodeOceanClient
    saved,        \* the path creds was saved to
    loaded,       \* the object then built from that file
    client,       \* the CodeOceanClient built
    \* ---- the request models
    request,      \* asdict of the request whose json_string was taken
    json_out,     \* the object that json_string serialized
    source,       \* the Source constructed, or the error raised
    \* ---- credentials_in_aws
    sm_secret,    \* what AWS answers when the role is assumed and the
                  \* secret is asked for
    got,          \* what a call of _get_secret returned or raised
    boot,         \* how create_credentials_from_aws_secrets_manager ended
    made_dirs,    \* the directories it made
    written,      \* the files it wrote, by path
    \* ---- integration/run_tests.py
    it_pc,        \* the number of steps of run_tests that passed, or ended
    it_log,       \* the calls of the client run_tests made, in order, each
                  \* with the response it got
    it_result,    \* how run_tests ended
    \* ---- codeocean_api.list_data_assets
    ls_pc,        \* position of the generator: idle, loop, done, raised
    ls_start,     \* local start
    ls_yielded,   \* the items yielded so far, in order
    ls_pages      \* the pages received so far, each with the start asked

pvars == <<pc, session, has_more, start_index, all_results, retry, rsp,
           result, trace, pages, assets>>

ovars == <<http_log, server_rsp, ret, calls, req_args>>

cvars == <<env, fs, secret, kwargs, seen_fs, opened, creds>>

fvars == <<saved, loaded, client>>

mvars == <<request, json_out, source>>

bvars == <<sm_secret, got, boot, made_dirs, written>>

ivars == <<it_pc, it_log, it_result>>

svars == <<ls_pc, ls_start, ls_yielded, ls_pages>>

vars == <<pvars, ovars, cvars, fvars, mvars, bvars, ivars, svars>>

----------------------------------------------------------------------------
(***************************************************************************)
(* The server.                                                             *)
(***************************************************************************)
ResultLists == UNION {[1..n -> Items] : n \in 0..MaxPageLen}

\* A body is a JSON object; either key may be missing from it.
Bodies ==
    {[has_more |-> h, results |-> r] : h \in BOOLEAN, r \in ResultLists}
    \cup {[results |-> r] : r \in ResultLists}
    \cup {[has_more |-> h] : h \in BOOLEAN}
    \cup {[k \in {} |-> TRUE]}

ErrorBody == [message |-> "Internal Server Error"]

Responses ==
    {[status_code |-> 200, body |-> b] : b \in Bodies}
    \cup {[status_code |-> s, body |-> ErrorBody] : s \in ErrorStatuses}

NoResponse == [status_code |-> 0, body |-> ErrorBody]

----------------------------------------------------------------------------
(***************************************************************************)
(* Helpers of the pagination.                                              *)
(***************************************************************************)
Min(a, b) == IF a <= b THEN a ELSE b

\* dict.get(key, default)
Get(d, key, default) == IF key \in DOMAIN d THEN d[key] ELSE default

\* page.get("has_more"): a missing key gives None, which is falsy
PageHasMore(page) == Get(page, "has_more", FALSE)

\* page.get("results", [])
PageResults(page) == Get(page, "results", <<>>)

Backoff_double(r) == Min(r * 2, MaxBackoff)
\* sleep(min(retry**2, 15))
Backoff(r) == Min(r * r, MaxBackoff)

RetryCond_strict(r, status) == r < max_retries /\ status # 200

RetryCond_no_status(r, status) == r <= max_retries
\* while retry <= max_retries and rsp.status_code != 200
RetryCond(r, status) == r <= max_retries /\ status # 200

NextHasMore_server(hm, n) == hm
\* has_more = has_more if num_of_results > 0 else False
NextHasMore(hm, n) == IF n > 0 THEN hm ELSE FALSE

NextStart_by_limit(start, n) == start + MAX_SEARCH_BATCH_REQUEST
\* start_index += num_of_results
NextStart(start, n) == start + n

Extend_front(all, page) == page \o all
\* all_results.extend(list(page))
Extend(all, page) == all \o page

\* r.get(self.asset_url, params=qp, auth=...) with qp["start"], qp["limit"],
\* and whether the response it received had status 200
GetEvent(start, limit, r) ==
    [type |-> "get", start |-> start, limit |-> limit,
     ok |-> (r.status_code = 200)]

SleepEvent(secs) == [type |-> "sleep", secs |-> secs]

\* Lines 304-309 and 360: the page get_page returned is accounted for, its
\* results are yielded and search_all_data_assets extends its list.
YieldPage(page) ==
    LET results == PageResults(page)
        num_of_results == Len(results)
    IN  /\ has_more' = NextHasMore(PageHasMore(page), num_of_results)
        /\ start_index' = NextStart(start_index, num_of_results)
        /\ all_results' = Extend(all_results, results)
        /\ pages' = Append(pages, page)
        /\ pc' = "loop"

----------------------------------------------------------------------------
(***************************************************************************)
(* search_all_data_assets.                                                 *)
(***************************************************************************)
PStart ==
    /\ pc = "idle"
    /\ session = "none"
    /\ has_more = FALSE
    /\ start_index = 0
    /\ all_results = <<>>
    /\ retry = 0
    /\ rsp = NoResponse
    /\ result = [kind |-> "none"]
    /\ trace = <<>>
    /\ pages = <<>>

\* a server of which nothing is known: it answers anything
PInit == PStart /\ assets = <<>>

\* The call starts: all_results = [], the session is opened, the locals of
\* _paginate_data_assets are set.
Call ==
    /\ pc = "idle"
    /\ pc' = "loop"
    /\ session' = "open"
    /\ has_more' = TRUE
    /\ start_index' = 0
    /\ all_results' = <<>>
    /\ UNCHANGED <<retry, rsp, result, trace, pages>>
    /\ UNCHANGED <<assets, ovars, cvars, fvars, mvars, bvars, ivars, svars>>

\* One turn of `while has_more`: the first attempt of get_page, answered
\* by one of answers.
GetPageFrom(answers) ==
    /\ pc = "loop"
    /\ has_more
    /\ Len(pages) < MaxPages
    /\ \E r \in answers :
        /\ rsp' = r
        /\ trace' = Append(trace,
                           <<GetEvent(start_index, MAX_SEARCH_BATCH_REQUEST, r)>>)
        /\ IF r.status_code = 200
           THEN /\ YieldPage(r.body)
                /\ UNCHANGED retry
           ELSE /\ retry' = 1
                /\ pc' = "retry"
                /\ UNCHANGED <<has_more, start_index, all_results, pages>>
    /\ UNCHANGED <<session, result>>
    /\ UNCHANGED <<assets, ovars, cvars, fvars, mvars, bvars, ivars, svars>>

GetPage == GetPageFrom(Responses)

\* One turn of the retry loop of get_page: sleep, count, ask again; the
\* request is answered by one of answers.
RetryFrom(answers) ==
    /\ pc = "retry"
    /\ RetryCond(retry, rsp.status_code)
    /\ \E r \in answers :
        /\ rsp' = r
        /\ trace' = [trace EXCEPT ![Len(trace)] =
                        @ \o <<SleepEvent(Backoff(retry)),
                               GetEvent(start_index,
                                        MAX_SEARCH_BATCH_REQUEST, r)>>]
    /\ retry' = retry + 1
    /\ UNCHANGED <<pc, session, has_more, start_index, all_results, result,
                   pages>>
    /\ UNCHANGED <<assets, ovars, cvars, fvars, mvars, bvars, ivars, svars>>

Retry == RetryFrom(Responses)

GetPageReturn_no_with ==
    /\ pc = "retry"
    /\ ~RetryCond(retry, rsp.status_code)
    /\ IF rsp.status_code = 200
       THEN /\ YieldPage(rsp.body)
            /\ UNCHANGED <<session, result>>
       ELSE /\ pc' = "raised"
            /\ result' = [kind |-> "ConnectionError", code |-> rsp.status_code]
            /\ UNCHANGED <<session, has_more, start_index, all_results,
                           pages>>
    /\ UNCHANGED <<retry, rsp, trace>>
    /\ UNCHANGED <<assets, ovars, cvars, fvars, mvars, bvars, ivars, svars>>
GetPageReturn_partial ==
    /\ pc = "retry"
    /\ ~RetryCond(retry, rsp.status_code)
    /\ IF rsp.status_code = 200
       THEN /\ YieldPage(rsp.body)
            /\ UNCHANGED <<session, result>>
       ELSE /\ pc' = "loop"
            /\ has_more' = FALSE
            /\ UNCHANGED <<session, result, start_index, all_results, pages>>
    /\ UNCHANGED <<retry, rsp, trace>>
    /\ UNCHANGED <<assets, ovars, cvars, fvars, mvars, bvars, ivars, svars>>
\* The retry loop is left: get_page returns the page or raises.
GetPageReturn ==
    /\ pc = "retry"
    /\ ~RetryCond(retry, rsp.status_code)
    /\ IF rsp.status_code = 200
       THEN /\ YieldPage(rsp.body)
            /\ UNCHANGED <<session, result>>
       ELSE /\ pc' = "raised"
            /\ session' = "closed"
            /\ result' = [kind |-> "ConnectionError", code |-> rsp.status_code]
            /\ UNCHANGED <<has_more, start_index, all_results, pages>>
    /\ UNCHANGED <<retry, rsp, trace>>
    /\ UNCHANGED <<assets, ovars, cvars, fvars, mvars, bvars, ivars, svars>>

\* `while has_more` ends: the with block closes the session and the
\* synthetic response is built.
Return ==
    /\ pc = "loop"
    /\ ~has_more
    /\ pc' = "done"
    /\ session' = "closed"
    /\ result' = [kind |-> "response", status_code |-> 200,
                  body |-> [results |-> all_results]]
    /\ UNCHANGED <<has_more, start_index, all_results, retry, rsp, trace,
                   pages>>
    /\ UNCHANGED <<assets, ovars, cvars, fvars, mvars, bvars, ivars, svars>>

----------------------------------------------------------------------------
(***************************************************************************)
(* search_all_data_assets against a server that keeps the pagination       *)
(* contract: it holds a list of assets, answers a request for start and    *)
(* limit with that slice of the list and with has_more true exactly when   *)
(* assets remain after the slice, and fails a page at most max_retries     *)
(* times in a row.                                                         *)
(***************************************************************************)
\* the sizes of the list: none, one, and around every multiple of the
\* limit the client asks with, up to what MaxPages requests can fetch
ServerSizes ==
    {0, 1}
    \cup {k * MAX_SEARCH_BATCH_REQUEST : k \in 1..MaxPages}
    \cup {k * MAX_SEARCH_BATCH_REQUEST + 1 : k \in 1..(MaxPages - 1)}

ServerPage(start, limit) ==
    [results |-> SubSeq(assets, start + 1, Min(start + limit, Len(assets))),
     has_more |-> start + limit < Len(assets)]

\* what the server may answer a request with when the requests made
\* for the same page before it, failed of them, all failed
ServerAnswers(failed) ==
    {[status_code |-> 200,
      body |-> ServerPage(start_index, MAX_SEARCH_BATCH_REQUEST)]}
    \cup (IF failed < max_retries
          THEN {[status_code |-> c, body |-> ErrorBody] : c \in ErrorStatuses}
          ELSE {})

ConsistentGetPage == GetPageFrom(ServerAnswers(0))

\* a retry comes after as many failures as get_page has made requests
\* for the page it is fetching
ConsistentRetry ==
    RetryFrom(ServerAnswers(Cardinality({i \in DOMAIN trace[Len(trace)] :
                                            trace[Len(trace)][i].type = "get"})))

----------------------------------------------------------------------------
(***************************************************************************)
(* The values of arguments and of JSON bodies: None, a string, a list of   *)
(* values or a dict of values; t tells which.                              *)
(***************************************************************************)
None == [t |-> "None"]

Str(v) == [t |-> "str", v |-> v]

List(items) == [t |-> "list", items |-> items]

Dict(d) == [t |-> "dict", d |-> d]

Integer(n) == [t |-> "int", n |-> n]

Bool(b) == [t |-> "bool", b |-> b]

Truthy_or_none(x) == TRUE
\* if x: None, the empty string, the empty list and the empty dict are false
Truthy(x) ==
    /\ x # None
    /\ x.t = "str" => x.v # ""
    /\ x.t = "list" => x.items # <<>>
    /\ x.t = "dict" => DOMAIN x.d # {}

----------------------------------------------------------------------------
(***************************************************************************)
(* The operations of CodeOceanClient that make one request.                *)
(***************************************************************************)
\* statuses the server answers a single request with
OpStatuses == {200, 204, 404, 500}

OpResponses == {[status_code |-> s, content |-> c] :
                    s \in OpStatuses, c \in {"{}"}}

\* an operation whose arguments make no json body
NoArgs == [a \in {} |-> None]

NoJson == [k \in {} |-> None]

OInit ==
    /\ http_log = <<>>
    /\ server_rsp = [status_code |-> 0, content |-> ""]
    /\ ret = [op |-> "none"]
    /\ calls = 0
    /\ req_args = <<>>

Returned_raise_for_status(op, response) ==
    IF response.status_code \in 200..299
    THEN [op |-> op, outcome |-> "returned", response |-> response]
    ELSE [op |-> op, outcome |-> "raised", response |-> response]
\* return response
Returned(op, response) ==
    [op |-> op, outcome |-> "returned", response |-> response]

\* response = requests.<method>(url, params=params, json=json, ...);
\* return response
RequestWith(op, method, url, args, params, json) ==
    /\ calls < MaxCalls
    /\ calls' = calls + 1
    /\ \E r \in OpResponses :
        /\ http_log' = Append(http_log,
                              [op |-> op, method |-> method, url |-> url,
                               params |-> params, json |-> json])
        /\ server_rsp' = r
        /\ ret' = Returned(op, r)
    /\ req_args' = Append(req_args, args)
    /\ UNCHANGED <<pvars, cvars, fvars, mvars, bvars, ivars, svars>>

Request(op, method, url, args, json) ==
    RequestWith(op, method, url, args, [k \in {} |-> None], json)

OneRequest(op, method, url) == Request(op, method, url, NoArgs, NoJson)

get_data_asset == OneRequest("get_data_asset", "GET", "asset_url/id")

\* signature(self.search_data_assets).parameters
SearchParameters ==
    {"start", "limit", "sort_order", "sort_field", "type", "ownership",
     "favorite", "archived", "query"}

\* the arguments of search_data_assets, None when left out: the text
\* arguments are given together or not at all
SearchDataAssetsArgs ==
    {[k \in SearchParameters |->
        IF k = "start" THEN n[1] ELSE IF k = "limit" THEN n[2]
        ELSE IF k = "favorite" THEN b[1] ELSE IF k = "archived" THEN b[2]
        ELSE q] :
     n \in {<<None, None>>, <<Integer(0), Integer(5)>>,
            <<Integer(5), None>>},
     b \in {<<None, None>>, <<Bool(FALSE), Bool(TRUE)>>,
            <<None, Bool(FALSE)>>},
     q \in {None, Str("x")}}

IsNotNone_truthy(x) ==
    /\ x # None
    /\ x.t = "int" => x.n # 0
    /\ x.t = "bool" => x.b
    /\ x.t = "str" => x.v # ""
\* frame_locals[k] is not None
IsNotNone(x) == x # None

\* query_params = dict([(k, frame_locals[k]) for k, v in signature(...)
\* .parameters.items() if frame_locals[k] is not None])
query_params(frame_locals) ==
    [k \in {p \in SearchParameters : IsNotNone(frame_locals[p])} |->
        frame_locals[k]]

search_data_assets ==
    \E args \in SearchDataAssetsArgs :
        RequestWith("search_data_assets", "GET", "asset_url", args,
                    query_params(args), NoJson)

create_data_asset == OneRequest("create_data_asset", "POST", "asset_url")

\* the arguments of update_data_asset: new_name is required, the other
\* arguments are None when left out
UpdateDataAssetArgs ==
    [new_name : {Str("n")},
     new_description : {None, Str(""), Str("d")},
     new_tags : {None, List(<<>>), List(<<Str("t")>>)},
     new_mount : {None, Str("m")},
     new_custom_metadata : {None, Dict([key |-> Str("value")])}]

\* the argument that gives each field of the body
ArgOfField ==
    [name |-> "new_name", description |-> "new_description",
     tags |-> "new_tags", mount |-> "new_mount",
     custom_metadata |-> "new_custom_metadata"]

\* data = {"name": new_name}; if new_description: data["description"] = ...
update_data_asset_json(args) ==
    [k \in {f \in DOMAIN ArgOfField :
               f = "name" \/ Truthy(args[ArgOfField[f]])} |->
        args[ArgOfField[k]]]

update_data_asset ==
    \E args \in UpdateDataAssetArgs :
        Request("update_data_asset", "PUT", "asset_url/id", args,
                update_data_asset_json(args))

run_capsule == OneRequest("run_capsule", "POST", "computation_url")

get_capsule == OneRequest("get_capsule", "GET", "capsule_url/id")

get_capsule_computations ==
    OneRequest("get_capsule_computations", "GET",
               "capsule_url/id/computations")

get_computation == OneRequest("get_computation", "GET", "computation_url/id")

get_list_result_items ==
    OneRequest("get_list_result_items", "POST", "computation_url/id/results")

get_result_file_download_url ==
    OneRequest("get_result_file_download_url", "GET",
               "computation_url/id/results/download_url?path=")

\* the arguments of update_permissions, None when left out
UpdatePermissionsArgs ==
    [users : {None, List(<<Str("u")>>)},
     groups : {None, List(<<Str("g")>>)},
     everyone : {None, Str(""), Str("viewer")}]

OrEmptyList_keep(x) == x
\* [] if users is None else users
OrEmptyList(x) == IF x = None THEN List(<<>>) ELSE x

\* permissions = {"users": users, "groups": groups}; if everyone is not
\* None: permissions["everyone"] = everyone
update_permissions_json(args) ==
    [k \in {"users", "groups"}
            \cup (IF args.everyone # None THEN {"everyone"} ELSE {}) |->
        IF k = "everyone" THEN args.everyone ELSE OrEmptyList(args[k])]

update_permissions ==
    \E args \in UpdatePermissionsArgs :
        Request("update_permissions", "POST", "asset_url/id/permissions",
                args, update_permissions_json(args))

archive_data_asset ==
    OneRequest("archive_data_asset", "PATCH", "asset_url/id/archive")

delete_data_asset == OneRequest("delete_data_asset", "DELETE", "asset_url/id")

----------------------------------------------------------------------------
(***************************************************************************)
(* CodeOceanCredentials: strings are sequences of characters, a dict is a  *)
(* function whose domain is the set of its keys.                           *)
(***************************************************************************)
Fields == {"domain", "token"}

\* the default config file and a file the caller names
DefaultPath == "default"

Paths == {DefaultPath, "cfg"}

Slashes(n) == [i \in 1..n |-> "/"]

\* the domains and the token a source marked c can give
DomainsOf(c) == {<<c>> \o Slashes(j) : j \in 0..MaxSlashes}

TokensOf(c) == {<<"t", c>>}

\* the dicts giving any of domain and token
DictsOf(c) ==
    UNION {{f \in [K -> DomainsOf(c) \cup TokensOf(c)] :
                /\ "domain" \in K => f["domain"] \in DomainsOf(c)
                /\ "token" \in K => f["token"] \in TokensOf(c)} :
           K \in SUBSET Fields}

EmptyDict == [k \in {} |-> <<>>]

\* the keyword arguments of CodeOceanCredentials(...)
InitKwargs ==
    {[k \in DOMAIN d \cup a \cup c |->
        IF k = "aws_secrets_name" THEN "secret"
        ELSE IF k = "config_file" THEN "cfg"
        ELSE d[k]] :
     d \in DictsOf("i"),
     a \in {{}, {"aws_secrets_name"}},
     c \in {{}, {"config_file"}}}

\* a path holds no file, a file that is not JSON, or a JSON object
FileStatesOf(c) ==
    {[kind |-> "missing"], [kind |-> "malformed"]}
    \cup {[kind |-> "json", data |-> d] : d \in DictsOf(c)}

\* the secret cannot be fetched, or is a JSON object
SecretStates ==
    {[kind |-> "error"]} \cup {[kind |-> "json", data |-> d] : d \in DictsOf("s")}

CInit ==
    /\ env \in DictsOf("e")
    /\ fs \in {[p \in Paths |-> IF p = DefaultPath THEN d ELSE c] :
                  d \in FileStatesOf("f"), c \in FileStatesOf("c")}
    /\ secret \in SecretStates
    /\ kwargs = EmptyDict
    /\ seen_fs = fs
    /\ opened = <<>>
    /\ creds = [outcome |-> "none"]

\* os.path.isfile
IsFile(path) == fs[path].kind # "missing"

RECURSIVE LStrip(_)
LStrip(v) == IF v # <<>> /\ Head(v) = "/" THEN LStrip(Tail(v)) ELSE v

RECURSIVE RStrip(_)
RStrip(v) ==
    IF v # <<>> /\ v[Len(v)] = "/" THEN RStrip(SubSeq(v, 1, Len(v) - 1))
    ELSE v

\* str.strip("/"): the slashes at both ends are removed
Strip(v) == RStrip(LStrip(v))

\* the settings sources
InitSettings == [type |-> "init"]

EnvSettings == [type |-> "env"]

ConfigFileSettingsSource(path) == [type |-> "file", path |-> path]

AWSConfigSettingsSource(name) == [type |-> "aws", name |-> name]

Sources(srcs) == [err |-> "none", sources |-> srcs]

Raise(e) == [err |-> e, sources |-> <<>>]

DefaultSources_env_first(default_file_exists) ==
    IF default_file_exists
    THEN Sources(<<EnvSettings, InitSettings,
                   ConfigFileSettingsSource(DefaultPath)>>)
    ELSE Sources(<<EnvSettings, InitSettings>>)
\* lines 264-276: no secret and no config file are named
DefaultSources(default_file_exists) ==
    IF default_file_exists
    THEN Sources(<<InitSettings, EnvSettings,
                   ConfigFileSettingsSource(DefaultPath)>>)
    ELSE Sources(<<InitSettings, EnvSettings>>)

OnMissingConfigFile_fall_back(init_file_path) ==
    DefaultSources(IsFile(DefaultPath))
\* lines 256-259: the named config file does not exist
OnMissingConfigFile(init_file_path) == Raise("FileNotFoundError")

ConfigFileSources_with_env(init_file_path) ==
    Sources(<<InitSettings, EnvSettings,
              ConfigFileSettingsSource(init_file_path)>>)
\* lines 260-263: the named config file exists
ConfigFileSources(init_file_path) ==
    Sources(<<InitSettings, ConfigFileSettingsSource(init_file_path)>>)

AWSSources_with_env(aws_secrets_path) ==
    Sources(<<InitSettings, EnvSettings,
              AWSConfigSettingsSource(aws_secrets_path)>>)
\* lines 249-252: a secret is named
AWSSources(aws_secrets_path) ==
    Sources(<<InitSettings, AWSConfigSettingsSource(aws_secrets_path)>>)

settings_customise_sources_file_first(init_kwargs) ==
    IF "config_file" \in DOMAIN init_kwargs
    THEN IF ~IsFile(init_kwargs["config_file"])
         THEN OnMissingConfigFile(init_kwargs["config_file"])
         ELSE ConfigFileSources(init_kwargs["config_file"])
    ELSE IF "aws_secrets_name" \in DOMAIN init_kwargs
    THEN AWSSources(init_kwargs["aws_secrets_name"])
    ELSE DefaultSources(IsFile(DefaultPath))
\* lines 241-276: the sources are chosen by the arguments given
settings_customise_sources(init_kwargs) ==
    IF "aws_secrets_name" \in DOMAIN init_kwargs
    THEN AWSSources(init_kwargs["aws_secrets_name"])
    ELSE IF "config_file" \in DOMAIN init_kwargs
    THEN IF ~IsFile(init_kwargs["config_file"])
         THEN OnMissingConfigFile(init_kwargs["config_file"])
         ELSE ConfigFileSources(init_kwargs["config_file"])
    ELSE DefaultSources(IsFile(DefaultPath))

\* the fields of a dict that are credentials fields
FieldsOf(d) == [k \in DOMAIN d \cap Fields |-> d[k]]

get_secret_swallow(secrets_name) ==
    IF secret.kind = "json"
    THEN [err |-> "none", values |-> FieldsOf(secret.data), opened |-> <<>>]
    ELSE [err |-> "none", values |-> EmptyDict, opened |-> <<>>]
\* AWSConfigSettingsSource._get_secret and _json_contents: the secret's JSON
\* object, or the error of the secrets manager, which nothing catches
get_secret(secrets_name) ==
    IF secret.kind = "json"
    THEN [err |-> "none", values |-> FieldsOf(secret.data), opened |-> <<>>]
    ELSE [err |-> "ClientError", values |-> EmptyDict, opened |-> <<>>]

\* What calling one source gives: the fields it sets, the files it opened,
\* the error it raised.
SourceCall(src, init_kwargs) ==
    IF src.type = "init"
    THEN [err |-> "none", values |-> FieldsOf(init_kwargs), opened |-> <<>>]
    ELSE IF src.type = "env"
    THEN [err |-> "none", values |-> FieldsOf(env), opened |-> <<>>]
    ELSE IF src.type = "file"
    THEN IF fs[src.path].kind = "json"
         THEN [err |-> "none", values |-> FieldsOf(fs[src.path].data),
               opened |-> <<src.path>>]
         ELSE IF fs[src.path].kind = "malformed"
         THEN [err |-> "JSONDecodeError", values |-> EmptyDict,
               opened |-> <<src.path>>]
         ELSE [err |-> "FileNotFoundError", values |-> EmptyDict,
               opened |-> <<>>]
    ELSE get_secret(src.name)

\* deep_update: the keys of hi win over those of lo
Merge(hi, lo) ==
    [k \in DOMAIN hi \cup DOMAIN lo |-> IF k \in DOMAIN hi THEN hi[k] ELSE lo[k]]

\* Every source is called, in the order of the tuple; a source earlier in
\* the tuple wins over a later one, field by field.
RECURSIVE BuildValues(_, _)
BuildValues(srcs, init_kwargs) ==
    IF srcs = <<>>
    THEN [err |-> "none", values |-> EmptyDict, opened |-> <<>>]
    ELSE LET h == SourceCall(Head(srcs), init_kwargs)
         IN  IF h.err # "none" THEN h
             ELSE LET t == BuildValues(Tail(srcs), init_kwargs)
                  IN  [err |-> t.err,
                       values |-> Merge(h.values, t.values),
                       opened |-> h.opened \o t.opened]

\* domain and token are required; the validator of domain strips it
Validate(values) ==
    IF Fields \subseteq DOMAIN values
    THEN [outcome |-> "ok",
          domain |-> Strip(values["domain"]),
          token |-> values["token"]]
    ELSE [outcome |-> "ValidationError", missing |-> Fields \ DOMAIN values]

\* BaseSettings.__init__: the sources are chosen and called, their values
\* merged and validated
Build(init_kwargs) ==
    LET cs == settings_customise_sources(init_kwargs)
        b == BuildValues(cs.sources, init_kwargs)
    IN  IF cs.err # "none"
        THEN [creds |-> [outcome |-> cs.err], opened |-> <<>>]
        ELSE [creds |-> IF b.err # "none" THEN [outcome |-> b.err]
                        ELSE Validate(b.values),
              opened |-> b.opened]

\* CodeOceanCredentials(**init_kwargs) with arguments among kws, once in
\* each environment
ConstructWith(kws) ==
    /\ creds.outcome = "none"
    /\ client.how = "none"
    /\ \E kw \in kws :
        /\ kwargs' = kw
        /\ creds' = Build(kw).creds
        /\ opened' = Build(kw).opened
    /\ seen_fs' = fs
    /\ UNCHANGED <<env, fs, secret>>
    /\ UNCHANGED <<pvars, ovars, fvars, mvars, bvars, ivars, svars>>

Construct == ConstructWith(InitKwargs)

----------------------------------------------------------------------------
(***************************************************************************)
(* Saving credentials to a file and reading them back, and the domain a    *)
(* CodeOceanClient keeps.  The strings here have slashes, quotes and       *)
(* backslashes anywhere.                                                   *)
(***************************************************************************)
RichChars == {"a", "/", "\"", "\\"}

RichStrings == UNION {[1..n -> RichChars] : n \in 0..MaxStrLen}

\* CodeOceanCredentials(domain=d, token=t)
DirectKwargs ==
    {[k \in Fields |-> IF k = "domain" THEN d ELSE t] :
        d \in RichStrings, t \in RichStrings}

\* the environment and the default file give nothing or both fields
FilesInit ==
    /\ env \in {d \in DictsOf("e") : DOMAIN d \in {{}, Fields}}
    /\ fs \in {[p \in Paths |-> IF p = DefaultPath THEN d
                                 ELSE [kind |-> "missing"]] :
                  d \in {[kind |-> "missing"]}
                        \cup {[kind |-> "json", data |-> x] :
                                 x \in {y \in DictsOf("f") :
                                           DOMAIN y = Fields}}}
    /\ secret = [kind |-> "error"]
    /\ kwargs = EmptyDict
    /\ seen_fs = fs
    /\ opened = <<>>
    /\ creds = [outcome |-> "none"]

ConstructDirect == ConstructWith(DirectKwargs)

\* json.dumps of a string: quotes and backslashes are escaped
RECURSIVE Escape(_)
Escape(v) ==
    IF v = <<>> THEN <<>>
    ELSE (IF Head(v) \in {"\"", "\\"} THEN <<"\\", Head(v)>>
          ELSE <<Head(v)>>) \o Escape(Tail(v))

\* what json.loads reads between the quotes of a string: a bare quote or a
\* backslash that escapes nothing it may escape is an error
RECURSIVE Unescape(_)
Unescape(b) ==
    IF b = <<>> THEN [ok |-> TRUE, v |-> <<>>]
    ELSE IF Head(b) = "\"" THEN [ok |-> FALSE, v |-> <<>>]
    ELSE IF Head(b) = "\\"
    THEN IF Len(b) >= 2 /\ b[2] \in {"\"", "\\", "/"}
         THEN LET r == Unescape(SubSeq(b, 3, Len(b)))
              IN  [ok |-> r.ok, v |-> <<b[2]>> \o r.v]
         ELSE [ok |-> FALSE, v |-> <<>>]
    ELSE LET r == Unescape(Tail(b))
         IN  [ok |-> r.ok, v |-> <<Head(b)>> \o r.v]

\* json.dump of a dict of strings: the text of each member's value
json_dump(d) == [k \in DOMAIN d |-> <<"\"">> \o Escape(d[k]) \o <<"\"">>]

\* json.load of such a text: the state of a file that holds it
json_load(text) ==
    LET body(k) == SubSeq(text[k], 2, Len(text[k]) - 1)
        quoted(k) == /\ Len(text[k]) >= 2
                     /\ text[k][1] = "\""
                     /\ text[k][Len(text[k])] = "\""
    IN  IF \A k \in DOMAIN text : quoted(k) /\ Unescape(body(k)).ok
        THEN [kind |-> "json",
              data |-> [k \in DOMAIN text |-> Unescape(body(k)).v]]
        ELSE [kind |-> "malformed"]

get_secret_value_masked(token) == [i \in 1..10 |-> "*"]
\* SecretStr.get_secret_value
get_secret_value(token) == token

\* creds.save_credentials_to_file(output_path): the file at output_path is
\* made or overwritten
save_credentials_to_file ==
    /\ creds.outcome = "ok"
    /\ saved = "none"
    /\ client.how = "none"
    /\ \E output_path \in Paths :
        /\ fs' = [fs EXCEPT ![output_path] =
                    json_load(json_dump(
                        [k \in Fields |->
                            IF k = "domain" THEN creds.domain
                            ELSE get_secret_value(creds.token)]))]
        /\ saved' = output_path
    /\ UNCHANGED <<env, secret, kwargs, seen_fs, opened, creds>>
    /\ UNCHANGED <<loaded, client>>
    /\ UNCHANGED <<pvars, ovars, mvars, bvars, ivars, svars>>

\* CodeOceanCredentials(config_file=path) with the path just saved to
ConstructFromFile ==
    /\ saved # "none"
    /\ loaded.outcome = "none"
    /\ loaded' = Build([k \in {"config_file"} |-> saved]).creds
    /\ UNCHANGED <<saved, client>>
    /\ UNCHANGED <<pvars, ovars, cvars, mvars, bvars, ivars, svars>>

\* CodeOceanClient.__init__
NewClient(how, domain, token) ==
    [how |-> how, raw |-> domain, domain |-> Strip(domain), token |-> token]

\* CodeOceanClient(domain, token)
CodeOceanClient ==
    /\ client.how = "none"
    /\ creds.outcome = "none"
    /\ \E domain \in RichStrings :
            client' = NewClient("init", domain, <<"t">>)
    /\ UNCHANGED <<saved, loaded>>
    /\ UNCHANGED <<pvars, ovars, cvars, mvars, bvars, ivars, svars>>

\* CodeOceanClient.from_credentials(creds)
from_credentials ==
    /\ client.how = "none"
    /\ creds.outcome = "ok"
    /\ saved = "none"
    /\ client' = NewClient("from_credentials", creds.domain,
                           get_secret_value(creds.token))
    /\ UNCHANGED <<saved, loaded>>
    /\ UNCHANGED <<pvars, ovars, cvars, mvars, bvars, ivars, svars>>

----------------------------------------------------------------------------
(***************************************************************************)
(* The request models.                                                     *)
(***************************************************************************)
Keys == {"k1", "k2"}

Leaves == {None, Str(""), Str("x")}

ListsOf(S) == {List(q) : q \in UNION {[1..n -> S] : n \in 0..MaxListLen}}

DictsOver(S) == {Dict(d) : d \in UNION {[K -> S] : K \in SUBSET Keys}}

\* the values of a field: leaves, lists of leaves, dicts of leaves and lists
\* of dicts of leaves
Values ==
    Leaves \cup ListsOf(Leaves) \cup DictsOver(Leaves)
    \cup ListsOf(DictsOver(Leaves))

\* asdict(self): every field of the dataclass is a key
Requests ==
    {Dict([k \in Keys |-> IF k = "k1" THEN l ELSE v]) :
        l \in Leaves, v \in Values}

Kept_truthy(x) ==
    /\ x.t # "None"
    /\ x.t = "str" => x.v # ""
    /\ x.t = "list" => x.items # <<>>
    /\ x.t = "dict" => DOMAIN x.d # {}
\* x is not None
Kept(x) == x.t # "None"

RECURSIVE clean_nones(_)
RECURSIVE clean_list(_)
\* [self.__clean_nones(x) for x in value if x is not None]
clean_list(items) ==
    IF items = <<>> THEN <<>>
    ELSE IF Kept(Head(items))
    THEN <<clean_nones(Head(items))>> \o clean_list(Tail(items))
    ELSE clean_list(Tail(items))

\* BasicRequest.__clean_nones
clean_nones(value) ==
    IF value.t = "list" THEN List(clean_list(value.items))
    ELSE IF value.t = "dict"
    THEN Dict([key \in {k \in DOMAIN value.d : Kept(value.d[k])} |->
                 clean_nones(value.d[key])])
    ELSE value

\* request.json_string: json.dumps writes the cleaned value as it is
json_string ==
    /\ request.t = "unset"
    /\ \E r \in Requests :
        /\ request' = r
        /\ json_out' = clean_nones(r)
    /\ UNCHANGED source
    /\ UNCHANGED <<pvars, ovars, cvars, fvars, bvars, ivars, svars>>

Arms == {"aws", "gcp", "computation"}

\* the arguments of Source(...): the arms that are not None
SourceArgs ==
    {[a \in A |-> IF a = "aws" THEN "Sources.AWS"
                  ELSE IF a = "gcp" THEN "Sources.GCP"
                  ELSE "Sources.Computation"] : A \in SUBSET Arms}

post_init_no_check(self) == [outcome |-> "ok", self |-> self]
\* Source.__post_init__
post_init(self) ==
    LET nones == {a \in Arms : a \notin DOMAIN self}
    IN  IF Cardinality(nones) = 3
        THEN [outcome |-> "Exception('At least one source is required')",
              self |-> self]
        ELSE [outcome |-> "ok", self |-> self]

\* Source(aws=..., gcp=..., computation=...)
ConstructSource ==
    /\ source.outcome = "none"
    /\ \E args \in SourceArgs : source' = post_init(args)
    /\ UNCHANGED <<request, json_out>>
    /\ UNCHANGED <<pvars, ovars, cvars, fvars, bvars, ivars, svars>>

----------------------------------------------------------------------------
(***************************************************************************)
(* credentials_in_aws: the bootstrapper that fetches a secret and writes   *)
(* a credentials file.  A path is the sequence of its components.          *)
(***************************************************************************)
\* the error codes _get_secret prints a message for, and one it does not
ListedCodes ==
    {"DecryptionFailure", "InternalServiceError",
     "InvalidParameterException", "InvalidRequestException",
     "ResourceNotFoundException"}

\* the fields a secret may have, in either naming, and their values
ValueOf ==
    [domain |-> "https://acmecorp.codeocean.com", token |-> "fake_token",
     api_domain |-> "https://api.codeocean.com", access_token |-> "abc"]

\* AWS refuses the role, refuses the secret, or gives a string that is a
\* JSON object or is not JSON
SMStates ==
    {[kind |-> "AssumeRoleError"], [kind |-> "text"]}
    \cup {[kind |-> "ClientError", code |-> c] :
              c \in ListedCodes \cup {"AccessDeniedException"}}
    \cup {[kind |-> "json", data |-> [k \in K |-> ValueOf[k]]] :
              K \in SUBSET DOMAIN ValueOf}

BInit ==
    /\ sm_secret \in SMStates
    /\ got = [outcome |-> "none"]
    /\ boot = [outcome |-> "none"]
    /\ made_dirs = {}
    /\ written = [p \in {} |-> <<>>]

\* _get_secret: the error of assume_role is raised again; a ClientError of
\* cache.get_secret_string is caught, whatever its code, and the None that
\* secret was set to is returned
aws_get_secret(secret_name) ==
    IF sm_secret.kind = "AssumeRoleError"
    THEN [outcome |-> "raised", error |-> "ClientError"]
    ELSE IF sm_secret.kind = "ClientError"
    THEN [outcome |-> "returned", secret |-> None]
    ELSE [outcome |-> "returned", secret |-> sm_secret]

\* credentials_in_aws._get_secret(secret_name)
call_get_secret ==
    /\ got.outcome = "none"
    /\ got' = aws_get_secret("codeocean-service-account")
    /\ UNCHANGED <<sm_secret, boot, made_dirs, written>>
    /\ UNCHANGED <<pvars, ovars, cvars, fvars, mvars, ivars, svars>>

\* the file_location argument: None or a path
FileLocations ==
    {None} \cup {[t |-> "path", p |-> p] : p \in {<<"mock_file.json">>, <<"out">>}}

DEFAULT_HOME_PATH == <<"home", ".codeocean", "credentials.json">>

CREDENTIALS_FILENAME == "credentials.json"

Parent(path) == SubSeq(path, 1, Len(path) - 1)

NoFiles == [p \in {} |-> <<>>]

\* CodeOceanCredentials.create_credentials(domain, token, file_location):
\* the file at file_location holds the domain and the token
create_credentials(domain, token, file_location) ==
    [p \in {file_location} |-> [domain |-> domain, token |-> token]]

Bootstrap_tolerant(secret_name, file_location) ==
    LET location == IF file_location = None THEN DEFAULT_HOME_PATH
                    ELSE file_location.p \o <<CREDENTIALS_FILENAME>>
        g == aws_get_secret(secret_name)
        ended(outcome, files) ==
            [outcome |-> outcome, made_dirs |-> {Parent(location)},
             written |-> files]
        field(d, k) == IF k \in DOMAIN d THEN d[k] ELSE "null"
    IN  IF g.outcome = "raised" THEN ended(g.error, NoFiles)
        ELSE IF g.secret = None
        THEN ended("returned", create_credentials("null", "null", location))
        ELSE IF g.secret.kind = "text" THEN ended("JSONDecodeError", NoFiles)
        ELSE ended("returned",
                   create_credentials(field(g.secret.data, "api_domain"),
                                      field(g.secret.data, "access_token"),
                                      location))
\* create_credentials_from_aws_secrets_manager: how it ends, the
\* directories it made and the files it wrote
Bootstrap(secret_name, file_location) ==
    LET location == IF file_location = None THEN DEFAULT_HOME_PATH
                    ELSE file_location.p \o <<CREDENTIALS_FILENAME>>
        g == aws_get_secret(secret_name)
        ended(outcome, files) ==
            [outcome |-> outcome, made_dirs |-> {Parent(location)},
             written |-> files]
    IN  IF g.outcome = "raised" THEN ended(g.error, NoFiles)
        \* json.loads(None)
        ELSE IF g.secret = None THEN ended("TypeError", NoFiles)
        ELSE IF g.secret.kind = "text" THEN ended("JSONDecodeError", NoFiles)
        ELSE IF "api_domain" \notin DOMAIN g.secret.data
        THEN ended("KeyError('api_domain')", NoFiles)
        ELSE IF "access_token" \notin DOMAIN g.secret.data
        THEN ended("KeyError('access_token')", NoFiles)
        ELSE ended("returned",
                   create_credentials(g.secret.data["api_domain"],
                                      g.secret.data["access_token"],
                                      location))

create_credentials_from_aws_secrets_manager ==
    /\ boot.outcome = "none"
    /\ \E file_location \in FileLocations :
        LET b == Bootstrap("codeocean-service-account", file_location)
        IN  /\ boot' = [outcome |-> b.outcome,
                        file_location |-> file_location]
            /\ made_dirs' = b.made_dirs
            /\ written' = b.written
    /\ UNCHANGED <<sm_secret, got>>
    /\ UNCHANGED <<pvars, ovars, cvars, fvars, mvars, ivars, svars>>

----------------------------------------------------------------------------
(***************************************************************************)
(* integration/run_tests.py: six calls of the client, each checked.        *)
(***************************************************************************)
\* what the platform answers a call with: a status, and a body that is not
\* JSON or is a JSON object with or without an id
ItResponses ==
    [status_code : {200, 204, 500},
     body : {[kind |-> "text"], [kind |-> "json", d |-> [k \in {} |-> ""]]}
            \cup {[kind |-> "json", d |-> [id |-> i]] : i \in {"id1", "id2"}}]

\* the steps of run_tests in the order of its statements: the function
\* called, the name it gives the call, the status it expects and what
\* run_tests reads from the response after the check
ItSteps ==
    <<[test |-> "test_search_data_asset",
       api_call |-> "search_data_assets",
       expected_status_code |-> 200, reads |-> "json"],
      [test |-> "test_register_private_data_asset",
       api_call |-> "create_data_asset (private)",
       expected_status_code |-> 200, reads |-> "id"],
      [test |-> "test_register_public_data_asset",
       api_call |-> "create_data_asset (public)",
       expected_status_code |-> 200, reads |-> "id"],
      [test |-> "test_update_private_data_asset_permissions",
       api_call |-> "update_permissions (private)",
       expected_status_code |-> 204, reads |-> "nothing"],
      [test |-> "test_update_public_data_asset_permissions",
       api_call |-> "update_permissions (public)",
       expected_status_code |-> 204, reads |-> "nothing"],
      [test |-> "test_run_capsule",
       api_call |-> "run_capsule",
       expected_status_code |-> 200, reads |-> "nothing"]>>

\* response.json()
ResponseJson(response) ==
    IF response.body.kind = "json" THEN "ok" ELSE "JSONDecodeError"

\* _check_status_code: the message of a failed 200 expectation is built
\* with response.json() before AssertionError is raised
check_status_code(response, expected_status_code) ==
    IF expected_status_code = 200 /\ response.status_code # 200
    THEN IF ResponseJson(response) = "ok" THEN "AssertionError"
         ELSE ResponseJson(response)
    ELSE IF expected_status_code = 204 /\ response.status_code # 204
    THEN "AssertionError"
    ELSE "ok"

\* what run_tests does with the response of a step that passed its check:
\* print(response.json()), and ["id"] of it
AfterCheck(step, response) ==
    IF step.reads = "nothing" THEN "ok"
    ELSE IF ResponseJson(response) # "ok" THEN ResponseJson(response)
    ELSE IF step.reads = "id" /\ "id" \notin DOMAIN response.body.d
    THEN "KeyError('id')"
    ELSE "ok"

\* the data asset id a step passes to the client: the id the registration
\* of the private or of the public asset returned
DataAssetIdOf(i) ==
    IF ItSteps[i].api_call \in {"update_permissions (private)",
                                "run_capsule"}
    THEN it_log[2].response.body.d["id"]
    ELSE IF ItSteps[i].api_call = "update_permissions (public)"
    THEN it_log[3].response.body.d["id"]
    ELSE "none"

\* the i-th step of run_tests: the call, its check, and what run_tests
\* reads from the response
Step(i) ==
    /\ it_result = "none"
    /\ it_pc = i - 1
    /\ \E response \in ItResponses :
        LET step == ItSteps[i]
            checked == check_status_code(response, step.expected_status_code)
            outcome == IF checked # "ok" THEN checked
                       ELSE AfterCheck(step, response)
        IN  /\ it_log' = Append(it_log,
                                [api_call |-> step.api_call,
                                 data_asset_id |-> DataAssetIdOf(i),
                                 response |-> response])
            /\ it_pc' = IF outcome = "ok" THEN i ELSE it_pc
            /\ it_result' = IF outcome # "ok" THEN outcome
                            ELSE IF i = Len(ItSteps) THEN "returned"
                            ELSE "none"
    /\ UNCHANGED <<pvars, ovars, cvars, fvars, mvars, bvars, svars>>

test_search_data_asset == Step(1)

test_register_private_data_asset == Step(2)

test_register_public_data_asset == Step(3)

test_update_private_data_asset_permissions == Step(4)

test_update_public_data_asset_permissions == Step(5)

test_run_capsule == Step(6)

----------------------------------------------------------------------------
(***************************************************************************)
(* codeocean_api.py: the script's generator list_data_assets.  ls_pages    *)
(* holds, for every request made, the start it sent and the body it got.   *)
(***************************************************************************)
\* list_data_assets(): the generator is created and has not run yet
list_data_assets ==
    /\ ls_pc = "idle"
    /\ ls_pc' = "request"
    /\ ls_start' = 0
    /\ UNCHANGED <<ls_yielded, ls_pages>>
    /\ UNCHANGED <<pvars, ovars, cvars, fvars, mvars, bvars, ivars>>

\* the statements after "yield from r['results']": where the generator
\* is, and the start it holds, once the page r is used up
AfterYieldFrom(r) ==
    IF "has_more" \notin DOMAIN r
    THEN [ls_pc |-> "KeyError('has_more')", ls_start |-> ls_start]
    ELSE IF r.has_more
    THEN [ls_pc |-> "request", ls_start |-> ls_start + Len(r.results)]
    ELSE [ls_pc |-> "done", ls_start |-> ls_start]

\* send_get(DATA_ASSET_API, data) and response.json(), up to the first
\* item of the page; a page with no item yields nothing
send_get ==
    /\ ls_pc = "request"
    /\ Len(ls_pages) < MaxPages
    /\ \E r \in Bodies :
        /\ ls_pages' = Append(ls_pages, [start |-> ls_start, r |-> r])
        /\ IF "results" \notin DOMAIN r
           THEN ls_pc' = "KeyError('results')" /\ ls_start' = ls_start
           ELSE IF r.results = <<>>
           THEN /\ ls_pc' = AfterYieldFrom(r).ls_pc
                /\ ls_start' = AfterYieldFrom(r).ls_start
           ELSE ls_pc' = "yield" /\ ls_start' = ls_start
    /\ UNCHANGED ls_yielded
    /\ UNCHANGED <<pvars, ovars, cvars, fvars, mvars, bvars, ivars>>

\* one item of "yield from r['results']", and after the last one the
\* statements that follow it
yield_from ==
    /\ ls_pc = "yield"
    /\ LET r == ls_pages[Len(ls_pages)].r
           k == Len(ls_yielded) - ls_start + 1
       IN  /\ ls_yielded' = Append(ls_yielded, r.results[k])
           /\ IF k = Len(r.results)
              THEN /\ ls_pc' = AfterYieldFrom(r).ls_pc
                   /\ ls_start' = AfterYieldFrom(r).ls_start
              ELSE UNCHANGED <<ls_pc, ls_start>>
    /\ UNCHANGED ls_pages
    /\ UNCHANGED <<pvars, ovars, cvars, fvars, mvars, bvars, ivars>>

----------------------------------------------------------------------------
(***************************************************************************)
(* The specifications: one search, a client's single-request operations,   *)
(* and the construction of credentials.                                    *)
(***************************************************************************)
\* the credentials state of the specifications that build no credentials
CIdle ==
    /\ env = EmptyDict
    /\ fs = [p \in Paths |-> [kind |-> "missing"]]
    /\ secret = [kind |-> "error"]
    /\ kwargs = EmptyDict
    /\ seen_fs = fs
    /\ opened = <<>>
    /\ creds = [outcome |-> "none"]

\* no credentials were saved and no client was built
FIdle ==
    /\ saved = "none"
    /\ loaded = [outcome |-> "none"]
    /\ client = [how |-> "none"]

\* no request model was used
MIdle ==
    /\ request = [t |-> "unset"]
    /\ json_out = [t |-> "unset"]
    /\ source = [outcome |-> "none"]

\* the secrets bootstrapper was not used
BIdle ==
    /\ sm_secret = [kind |-> "AssumeRoleError"]
    /\ got = [outcome |-> "none"]
    /\ boot = [outcome |-> "none"]
    /\ made_dirs = {}
    /\ written = [p \in {} |-> <<>>]

\* run_tests was not started
IIdle ==
    /\ it_pc = 0
    /\ it_log = <<>>
    /\ it_result = "none"

\* list_data_assets was not called
SIdle ==
    /\ ls_pc = "idle"
    /\ ls_start = 0
    /\ ls_yielded = <<>>
    /\ ls_pages = <<>>

Init ==
    PInit /\ OInit /\ CIdle /\ FIdle /\ MIdle /\ BIdle /\ IIdle /\ SIdle

Next == Call \/ GetPage \/ Retry \/ GetPageReturn \/ Return

Spec == Init /\ [][Next]_vars

\* the server holds a list of distinct assets
ConsistentInit ==
    /\ PStart /\ assets \in {[i \in 1..n |-> i] : n \in ServerSizes}
    /\ OInit /\ CIdle /\ FIdle /\ MIdle /\ BIdle /\ IIdle /\ SIdle

\* the call, once made, runs on: the client takes its next step and the
\* server answers every request
SpecConsistent ==
    /\ ConsistentInit
    /\ [][Call \/ ConsistentGetPage \/ ConsistentRetry \/ GetPageReturn
           \/ Return]_vars
    /\ WF_vars(ConsistentGetPage) /\ WF_vars(ConsistentRetry)
    /\ WF_vars(GetPageReturn) /\ WF_vars(Return)

OpsNext ==
    \/ get_data_asset
    \/ search_data_assets
    \/ create_data_asset
    \/ update_data_asset
    \/ run_capsule
    \/ get_capsule
    \/ get_capsule_computations
    \/ get_computation
    \/ get_list_result_items
    \/ get_result_file_download_url
    \/ update_permissions
    \/ archive_data_asset
    \/ delete_data_asset

SpecOps == Init /\ [][OpsNext]_vars

CredsInit ==
    PInit /\ OInit /\ CInit /\ FIdle /\ MIdle /\ BIdle /\ IIdle /\ SIdle

CredsNext == Construct

SpecCreds == CredsInit /\ [][CredsNext]_vars

FilesSpecInit ==
    PInit /\ OInit /\ FilesInit /\ FIdle /\ MIdle /\ BIdle /\ IIdle
    /\ SIdle

FilesNext ==
    \/ ConstructDirect
    \/ save_credentials_to_file
    \/ ConstructFromFile
    \/ CodeOceanClient
    \/ from_credentials

SpecFiles == FilesSpecInit /\ [][FilesNext]_vars

BootInit ==
    PInit /\ OInit /\ CIdle /\ FIdle /\ MIdle /\ BInit /\ IIdle /\ SIdle

SpecBoot ==
    BootInit
    /\ [][call_get_secret \/ create_credentials_from_aws_secrets_manager]_vars

SpecScript == Init /\ [][list_data_assets \/ send_get \/ yield_from]_vars

run_tests ==
    \/ test_search_data_asset
    \/ test_register_private_data_asset
    \/ test_register_public_data_asset
    \/ test_update_private_data_asset_permissions
    \/ test_update_public_data_asset_permissions
    \/ test_run_capsule

SpecIntegration == Init /\ [][run_tests]_vars

ModelsNext == json_string \/ ConstructSource

SpecModels == Init /\ [][ModelsNext]_vars

----------------------------------------------------------------------------
(***************************************************************************)
(* Reading the trace of a search: trace[m] holds the requests and sleeps   *)
(* of the m-th call of get_page, that is of the m-th page asked for.       *)
(***************************************************************************)
IsGet(e) == e.type = "get"

IsSleep(e) == e.type = "sleep"

\* the requests of one call of get_page, in order
GetsOf(ev) == SelectSeq(ev, IsGet)

\* the sleeps of one call of get_page, in order
SleepsOf(ev) == SelectSeq(ev, IsSleep)

\* the call of get_page that is running or ran last
LastCall == trace[Len(trace)]

RECURSIVE ConcatResults(_)
ConcatResults(ps) ==
    IF ps = <<>> THEN <<>>
    ELSE PageResults(Head(ps)) \o ConcatResults(Tail(ps))

\* the pages obtained with status 200 so far: those get_page returned and
\* the one its retry loop has just received
Fetched ==
    IF pc = "retry" /\ rsp.status_code = 200
    THEN Append(pages, rsp.body) ELSE pages

\* a page after which the server is asked for another one
Continues(page) == PageHasMore(page) /\ Len(PageResults(page)) > 0

----------------------------------------------------------------------------
\* C1: when the call returns, it returns one response with status 200 whose
\* body is {"results": R}, R being the concatenation of the results of the
\* pages in the order they were fetched; it returns exactly when the loop
\* ended, and it raises only on a page whose last response was not 200.
C1_AggregateInOrder ==
    /\ (pc = "done") <=> (result.kind = "response")
    /\ pc = "done" =>
          /\ result.status_code = 200
          /\ DOMAIN result.body = {"results"}
          /\ result.body.results = ConcatResults(pages)
    /\ result.kind = "ConnectionError" => rsp.status_code # 200

\* two pages of two items each were aggregated
C1_Witness ==
    /\ pc = "done"
    /\ Len(pages) = 2
    /\ Len(PageResults(pages[1])) = 2
    /\ Len(PageResults(pages[2])) = 2
    /\ PageResults(pages[1]) # PageResults(pages[2])
    /\ pages[1].results[1] # pages[1].results[2]

\* C2: for each page, a retry follows only a response that was not 200, at
\* most 3 retries follow the first attempt (at most 4 requests for a page,
\* no page being asked for by two calls of get_page), and the retry counter
\* counts the attempts of the current page only.
C2_RetryBudget ==
    /\ \A m \in 1..Len(trace) :
          LET gets == GetsOf(trace[m])
          IN  /\ Len(gets) \in 1..4
              /\ \A k \in 1..(Len(gets) - 1) : ~gets[k].ok
              /\ \A k \in 1..Len(gets) : gets[k].start = gets[1].start
              /\ \A n \in 1..(m - 1) : trace[n][1].start # gets[1].start
    /\ pc = "retry" =>
          /\ retry \in 1..4
          /\ retry = Len(GetsOf(LastCall))

\* the second page is at its first retry after the first page used three
C2_Witness ==
    /\ pc = "retry"
    /\ retry = 1
    /\ Len(trace) = 2
    /\ Len(GetsOf(trace[1])) = 4
    /\ start_index > 0

\* C3: the call raises ConnectionError only after the first attempt and 3
\* retries of a page all failed, and it does raise then; the error carries
\* the status of the last response, and the call slept 1, 4 and 9 seconds
\* between the attempts.
C3_RaiseAfterThreeRetries ==
    /\ (pc = "raised") <=> (result.kind = "ConnectionError")
    /\ pc = "raised" =>
          /\ result.code = rsp.status_code
          /\ result.code \in ErrorStatuses
          /\ LET g == [type |-> "get", start |-> start_index,
                       limit |-> 1000, ok |-> FALSE]
             IN  LastCall = <<g, [type |-> "sleep", secs |-> 1],
                              g, [type |-> "sleep", secs |-> 4],
                              g, [type |-> "sleep", secs |-> 9], g>>
    /\ (/\ pc = "retry"
        /\ Len(GetsOf(LastCall)) = 4
        /\ rsp.status_code # 200) => (~ENABLED Retry /\ ENABLED GetPageReturn)

\* the second page failed four times after the first page was fetched
C3_Witness ==
    /\ pc = "raised"
    /\ Len(pages) = 1
    /\ Len(trace) = 2
    /\ result.code = 503

\* C4: the sleep before the k-th retry of a page lasts min(k*k, 15)
\* seconds, that is 1, 4, 9; a sleep follows only a failed request, exactly
\* one sleep stands before every retry request and none before a first
\* attempt, so a page whose first attempt succeeds has no sleep.
C4_Backoff ==
    \A m \in 1..Len(trace) :
        LET ev == trace[m]
        IN  /\ Len(ev) % 2 = 1
            /\ \A i \in 1..Len(ev) :
                  IF i % 2 = 1
                  THEN IsGet(ev[i])
                  ELSE /\ IsSleep(ev[i])
                       /\ ~ev[i - 1].ok
                       /\ LET k == i \div 2
                          IN  ev[i].secs = (IF k * k <= 15 THEN k * k ELSE 15)
                       /\ ev[i].secs \in {1, 4, 9}
            /\ ev[1].ok => Len(ev) = 1

\* a 200 page, one failure, then a 200 page: 3 requests and one sleep of 1
C4_Witness ==
    /\ pc = "done"
    /\ Len(trace) = 2
    /\ Len(trace[1]) = 1 /\ trace[1][1].ok
    /\ Len(trace[2]) = 3
    /\ ~trace[2][1].ok
    /\ trace[2][2] = [type |-> "sleep", secs |-> 1]
    /\ trace[2][3].ok

\* C5: no request follows a successfully fetched page whose has_more is
\* false or missing or whose results are empty or missing; the call ends
\* on the first such page and on no earlier one.
C5_StopsAtLastPage ==
    /\ Len(Fetched) <= Len(trace)
    /\ Len(trace) <= Len(Fetched) + 1
    /\ \A m \in 1..Len(trace) :
          (m <= Len(Fetched)) <=> trace[m][Len(trace[m])].ok
    /\ \A m \in 1..(Len(trace) - 1) : Continues(Fetched[m])
    /\ pc = "done" =>
          /\ pages # <<>>
          /\ Len(pages) = Len(trace)
          /\ ~Continues(pages[Len(pages)])

\* the call ended on a page that reports has_more with no results
C5_Witness ==
    /\ pc = "done"
    /\ Len(pages) = 2
    /\ "has_more" \in DOMAIN pages[2] /\ pages[2].has_more
    /\ "results" \in DOMAIN pages[2] /\ pages[2].results = <<>>

\* C6: every request carries limit 1000; the first asks for start 0 and
\* every request asks for start = the number of results received in the
\* pages fetched before it, so the pages are asked for in strictly
\* increasing start order and a retry repeats the start of its page.
C6_StartAndLimit ==
    /\ \A m \in 1..Len(trace) :
          /\ \A i \in 1..Len(trace[m]) :
                IsGet(trace[m][i]) =>
                    /\ trace[m][i].limit = 1000
                    /\ trace[m][i].start =
                          Len(ConcatResults(SubSeq(pages, 1, m - 1)))
          /\ m > 1 => trace[m - 1][1].start < trace[m][1].start
    /\ trace # <<>> => trace[1][1].start = 0

\* two pages were fetched, the second one after a retry
C6_Witness ==
    /\ pc = "done"
    /\ Len(pages) = 2
    /\ Len(trace[2]) = 3
    /\ trace[2][3].start = 2

----------------------------------------------------------------------------
\* C7: every operation other than search_all_data_assets makes exactly one
\* request and returns the response of the server as it is, whatever its
\* status: it never raises and never asks again.
C7_OneRequestRawResponse ==
    /\ Len(http_log) = calls
    /\ calls > 0 =>
          /\ ret.outcome = "returned"
          /\ ret.response = server_rsp
          /\ http_log[calls].op = ret.op

\* two operations were called and the second was answered with 500
C7_Witness ==
    /\ calls = 2
    /\ ret.op = "delete_data_asset"
    /\ ret.outcome = "returned"
    /\ ret.response.status_code = 500
    /\ http_log[1].op = "update_permissions"

----------------------------------------------------------------------------
(***************************************************************************)
(* Reading a construction of credentials.                                  *)
(***************************************************************************)
Constructed == creds.outcome # "none"

NamesSecret == "aws_secrets_name" \in DOMAIN kwargs

NamesFile == "config_file" \in DOMAIN kwargs

\* what the file at a path gave when the construction ran
DataAt(path) ==
    IF seen_fs[path].kind = "json" THEN seen_fs[path].data ELSE EmptyDict

\* the value of field f in the first of the dicts ds that has it
RECURSIVE FirstOf(_, _)
FirstOf(ds, f) ==
    IF f \in DOMAIN Head(ds) THEN Head(ds)[f] ELSE FirstOf(Tail(ds), f)

ProvidedBy(ds, f) == \E i \in 1..Len(ds) : f \in DOMAIN ds[i]

\* d is v without its trailing slashes
WithoutTrailingSlashes(v, d) ==
    /\ \E n \in 0..Len(v) : v = d \o Slashes(n)
    /\ d = <<>> \/ d[Len(d)] # "/"

\* the object holds, for each field, the value of the first of ds that has
\* it, and there is an object exactly when every field is in one of ds
ResolvedFrom(ds) ==
    /\ creds.outcome \in {"ok", "ValidationError"}
    /\ (creds.outcome = "ok") <=> (\A f \in Fields : ProvidedBy(ds, f))
    /\ creds.outcome = "ok" =>
          /\ WithoutTrailingSlashes(FirstOf(ds, "domain"), creds.domain)
          /\ creds.token = FirstOf(ds, "token")
    /\ creds.outcome = "ValidationError" =>
          creds.missing = {f \in Fields : ~ProvidedBy(ds, f)}

C9_MissingConfigFileIsFatal ==
    (/\ Constructed /\ ~NamesSecret /\ NamesFile
     /\ seen_fs[kwargs["config_file"]].kind = "missing") =>
        /\ creds.outcome = "FileNotFoundError"
        /\ opened = <<>>

\* the named file is missing while the arguments, the environment and the
\* default file all give both fields
C9_Witness ==
    /\ Constructed /\ ~NamesSecret /\ NamesFile
    /\ seen_fs["cfg"].kind = "missing"
    /\ Fields \subseteq DOMAIN kwargs
    /\ DOMAIN env = Fields
    /\ DOMAIN DataAt(DefaultPath) = Fields
    /\ creds.outcome = "FileNotFoundError"

\* C10: with an existing config_file given (and no secret named), each of
\* domain and token comes from the constructor argument if given and else
\* from the named file; the environment and the default file give nothing
\* and the default file is not opened.
C10_ConfigFileOnly ==
    (/\ Constructed /\ ~NamesSecret /\ NamesFile
     /\ seen_fs[kwargs["config_file"]].kind # "missing") =>
        /\ seen_fs[kwargs["config_file"]].kind = "malformed" =>
              creds.outcome = "JSONDecodeError"
        /\ seen_fs[kwargs["config_file"]].kind = "json" =>
              ResolvedFrom(<<FieldsOf(kwargs), DataAt(kwargs["config_file"])>>)
        /\ opened = <<kwargs["config_file"]>>

\* an explicit domain and the token of the named file, while the
\* environment and the default file give both fields
C10_Witness ==
    /\ Constructed /\ ~NamesSecret /\ NamesFile
    /\ DOMAIN kwargs = {"config_file", "domain"}
    /\ DOMAIN DataAt("cfg") = Fields
    /\ DOMAIN env = Fields
    /\ DOMAIN DataAt(DefaultPath) = Fields
    /\ creds.outcome = "ok"
    /\ creds.domain = <<"i">>
    /\ creds.token = <<"t", "c">>

\* C11: with aws_secrets_name given and the secret retrieved, each of domain
\* and token comes from the constructor argument if given and else from the
\* secret; the environment and the files give nothing and no file is opened.
C11_SecretOnly ==
    (Constructed /\ NamesSecret /\ secret.kind = "json") =>
        /\ ResolvedFrom(<<FieldsOf(kwargs), secret.data>>)
        /\ opened = <<>>

\* an explicit domain and the token of the secret, while the environment
\* and the default file give both fields
C11_Witness ==
    /\ Constructed /\ NamesSecret /\ ~NamesFile
    /\ DOMAIN kwargs = {"aws_secrets_name", "domain"}
    /\ secret.kind = "json" /\ DOMAIN secret.data = Fields
    /\ DOMAIN env = Fields
    /\ DOMAIN DataAt(DefaultPath) = Fields
    /\ creds.outcome = "ok"
    /\ creds.domain = <<"i">>
    /\ creds.token = <<"t", "s">>

\* C12: with aws_secrets_name given and the secret not retrievable, the
\* construction fails with the error of the retrieval, whatever the
\* arguments, the environment and the files give, and opens no file.
C12_SecretErrorIsFatal ==
    (Constructed /\ NamesSecret /\ secret.kind = "error") =>
        /\ creds.outcome = "ClientError"
        /\ opened = <<>>

\* the retrieval fails while the arguments, the environment and the default
\* file all give both fields
C12_Witness ==
    /\ Constructed /\ NamesSecret /\ ~NamesFile
    /\ secret.kind = "error"
    /\ Fields \subseteq DOMAIN kwargs
    /\ DOMAIN env = Fields
    /\ DOMAIN DataAt(DefaultPath) = Fields
    /\ creds.outcome = "ClientError"

----------------------------------------------------------------------------
(***************************************************************************)
(* Reading a save and reload of credentials, and a client.                 *)
(***************************************************************************)
\* C13: the domain a CodeOceanCredentials stores, and the domain of a
\* CodeOceanClient built from it or from a raw domain, is the domain given
\* with its trailing slashes removed and nothing else changed.
C13_TrailingSlashesRemoved ==
    /\ creds.outcome = "ok" =>
          WithoutTrailingSlashes(kwargs["domain"], creds.domain)
    /\ client.how = "init" =>
          WithoutTrailingSlashes(client.raw, client.domain)
    /\ client.how = "from_credentials" =>
          WithoutTrailingSlashes(kwargs["domain"], client.domain)

\* C14: credentials saved to a file and built again from that file alone
\* have the domain and the token of the object that was saved.
C14_SaveLoadRoundTrip ==
    loaded.outcome # "none" =>
        /\ loaded.outcome = "ok"
        /\ loaded.domain = creds.domain
        /\ loaded.token = creds.token

\* a domain and a token with quotes, backslashes and slashes went through
\* the named file while the environment and the default file give both
\* fields
C14_Witness ==
    /\ loaded.outcome = "ok"
    /\ saved = "cfg"
    /\ kwargs["domain"] = <<"\"", "/">>
    /\ loaded.domain = <<"\"">>
    /\ loaded.token = <<"\\", "\"">>
    /\ DOMAIN env = Fields
    /\ seen_fs[DefaultPath].kind = "json"

----------------------------------------------------------------------------
(***************************************************************************)
(* Reading the request models.                                             *)
(***************************************************************************)
\* out has, in every dict at every depth, exactly the keys of the dict of
\* inp it stands for whose value is not None; a list keeps its elements
\* that are not None, in order; a string is unchanged
RECURSIVE KeysOfNonNone(_, _)
KeysOfNonNone(inp, out) ==
    IF inp.t = "dict"
    THEN /\ out.t = "dict"
         /\ \A k \in Keys :
               k \in DOMAIN out.d <=>
                   (k \in DOMAIN inp.d /\ inp.d[k] # None)
         /\ \A k \in DOMAIN out.d : KeysOfNonNone(inp.d[k], out.d[k])
    ELSE IF inp.t = "list"
    THEN LET kept == SelectSeq(inp.items, LAMBDA x : x # None)
         IN  /\ out.t = "list"
             /\ Len(out.items) = Len(kept)
             /\ \A i \in 1..Len(kept) : KeysOfNonNone(kept[i], out.items[i])
    ELSE out = inp

\* C15: in the object json_string serializes, a key is absent, in the dicts
\* at every depth through dicts and lists, exactly when its value is None;
\* keys whose value is an empty string, list or dict are kept.
C15_NullStripping == request.t # "unset" => KeysOfNonNone(request, json_out)

\* a None beside an empty string in a dict inside a list, under a key
\* beside a None field
C15_Witness ==
    /\ request.t = "dict"
    /\ request.d["k1"] = None
    /\ request.d["k2"] =
          List(<<Dict([k \in Keys |-> IF k = "k1" THEN None ELSE Str("")]),
                 Dict([k \in {} |-> None])>>)
    /\ json_out =
          Dict([k \in {"k2"} |->
                  List(<<Dict([j \in {"k2"} |-> Str("")]),
                         Dict([j \in {} |-> None])>>)])

\* C16: Source() with no arm raises "At least one source is required", and
\* a Source with one arm is constructed.
C16_AtLeastOneSource ==
    /\ (source.outcome # "none" /\ DOMAIN source.self = {}) =>
          source.outcome = "Exception('At least one source is required')"
    /\ (source.outcome # "none" /\ Cardinality(DOMAIN source.self) = 1) =>
          source.outcome = "ok"

\* Source() was called and raised
C16_Witness ==
    /\ source.outcome = "Exception('At least one source is required')"
    /\ DOMAIN source.self = {}

\* C17: every Source that was constructed has exactly one of aws, gcp and
\* computation.
C17_ExactlyOneArm ==
    source.outcome = "ok" => Cardinality(DOMAIN source.self) = 1

----------------------------------------------------------------------------
(***************************************************************************)
(* Reading the bodies of update_data_asset and update_permissions: the     *)
(* i-th operation called had the arguments req_args[i] and sent the body   *)
(* http_log[i].json.                                                       *)
(***************************************************************************)
OptionalFields == DOMAIN ArgOfField \ {"name"}

\* C18: update_data_asset leaves out of the PUT body every optional
\* argument that is None, sends no null, and with only new_name sends
\* exactly {"name": new_name}.
C18_NoneIsOmitted ==
    \A i \in 1..Len(http_log) :
        http_log[i].op = "update_data_asset" =>
            LET args == req_args[i]
                data == http_log[i].json
            IN  /\ \A f \in OptionalFields :
                      args[ArgOfField[f]] = None => f \notin DOMAIN data
                /\ \A f \in DOMAIN data : data[f] # None
                /\ (\A f \in OptionalFields : args[ArgOfField[f]] = None) =>
                      /\ DOMAIN data = {"name"}
                      /\ data["name"] = args.new_name

\* a call with a description and tags but no mount and no metadata, then a
\* call with only new_name
C18_Witness ==
    /\ calls = 2
    /\ http_log[1].op = "update_data_asset"
    /\ DOMAIN http_log[1].json = {"name", "description", "tags"}
    /\ http_log[2].op = "update_data_asset"
    /\ \A f \in OptionalFields : req_args[2][ArgOfField[f]] = None
    /\ http_log[2].json = [name |-> Str("n")]

\* C19: the PUT body of update_data_asset has name and, for each of
\* description, tags, mount and custom_metadata whose argument is not None,
\* that key with exactly that value, whatever the value is.
C19_EveryGivenValueIsSent ==
    \A i \in 1..Len(http_log) :
        http_log[i].op = "update_data_asset" =>
            LET args == req_args[i]
                data == http_log[i].json
            IN  /\ "name" \in DOMAIN data
                /\ data["name"] = args.new_name
                /\ \A f \in OptionalFields :
                      args[ArgOfField[f]] # None =>
                          /\ f \in DOMAIN data
                          /\ data[f] = args[ArgOfField[f]]

\* C20: the POST body of update_permissions always has users and groups,
\* each the list given or an empty list when left out, whatever was called
\* before, and has everyone exactly when an everyone argument was given,
\* with its value; it has no other key.
C20_PermissionsBody ==
    \A i \in 1..Len(http_log) :
        http_log[i].op = "update_permissions" =>
            LET args == req_args[i]
                permissions == http_log[i].json
            IN  /\ DOMAIN permissions \subseteq {"users", "groups", "everyone"}
                /\ \A k \in {"users", "groups"} :
                      /\ k \in DOMAIN permissions
                      /\ permissions[k] =
                            IF args[k] = None THEN List(<<>>) ELSE args[k]
                /\ "everyone" \in DOMAIN permissions <=> args.everyone # None
                /\ "everyone" \in DOMAIN permissions =>
                      permissions["everyone"] = args.everyone

\* a call with users, groups and everyone, then a call with none of them
C20_Witness ==
    /\ calls = 2
    /\ http_log[1].op = "update_permissions"
    /\ http_log[1].json =
          [users |-> List(<<Str("u")>>), groups |-> List(<<Str("g")>>),
           everyone |-> Str("viewer")]
    /\ http_log[2].op = "update_permissions"
    /\ req_args[2] = [users |-> None, groups |-> None, everyone |-> None]
    /\ http_log[2].json = [users |-> List(<<>>), groups |-> List(<<>>)]

\* C21: the query parameters search_data_assets sends are exactly its
\* parameters whose argument is not None, each with the value given, a
\* False and a 0 included; no other parameter is sent.
C21_SearchParams ==
    \A i \in 1..Len(http_log) :
        http_log[i].op = "search_data_assets" =>
            LET args == req_args[i]
                params == http_log[i].params
            IN  /\ DOMAIN params \subseteq SearchParameters
                /\ \A k \in SearchParameters :
                      /\ k \in DOMAIN params <=> args[k] # None
                      /\ k \in DOMAIN params => params[k] = args[k]

\* a search with start 0 and favorite False given, limit 5 and archived
\* True too, and no text argument
C21_Witness ==
    /\ calls > 0
    /\ http_log[calls].op = "search_data_assets"
    /\ req_args[calls]["start"] = Integer(0)
    /\ req_args[calls]["favorite"] = Bool(FALSE)
    /\ req_args[calls]["query"] = None
    /\ http_log[calls].params =
          [start |-> Integer(0), limit |-> Integer(5),
           favorite |-> Bool(FALSE), archived |-> Bool(TRUE)]

----------------------------------------------------------------------------
(***************************************************************************)
(* Reading the secrets bootstrapper.                                       *)
(***************************************************************************)
\* C22: when cache.get_secret_string raises a client error, _get_secret
\* raises it to its caller and never returns.
C22_ClientErrorPropagates ==
    (got.outcome # "none" /\ sm_secret.kind = "ClientError") =>
        got.outcome = "raised"

\* where the claim has the file written: the file_location given, or the
\* default path
ClaimedLocation ==
    IF boot.file_location = None THEN DEFAULT_HOME_PATH
    ELSE boot.file_location.p

\* C23: given a secret that is a JSON object with domain and token,
\* create_credentials_from_aws_secrets_manager writes exactly that domain
\* and token to the file_location given, or to the default path when none
\* is given, and to no other file.
C23_WritesDomainAndToken ==
    (/\ boot.outcome # "none"
     /\ sm_secret.kind = "json"
     /\ {"domain", "token"} \subseteq DOMAIN sm_secret.data) =>
        /\ boot.outcome = "returned"
        /\ DOMAIN written = {ClaimedLocation}
        /\ written[ClaimedLocation] =
              [domain |-> sm_secret.data["domain"],
               token |-> sm_secret.data["token"]]

\* C30: when fetching the secret fails with a client error, the
\* bootstrapper ends with an error and writes no file.
C30_NoFileWithoutSecret ==
    (/\ boot.outcome # "none"
     /\ sm_secret.kind \in {"ClientError", "AssumeRoleError"}) =>
        /\ boot.outcome # "returned"
        /\ written = NoFiles

\* the secret was not found: _get_secret returned None, json.loads raised
\* and only the directory was made
C30_Witness ==
    /\ sm_secret = [kind |-> "ClientError",
                    code |-> "ResourceNotFoundException"]
    /\ got = [outcome |-> "returned", secret |-> None]
    /\ boot.outcome = "TypeError"
    /\ made_dirs = {<<"out">>}
    /\ written = NoFiles

----------------------------------------------------------------------------
(***************************************************************************)
(* Reading a run of integration/run_tests.py.                              *)
(***************************************************************************)
ExpectedStatus(i) ==
    it_log[i].response.status_code = ItSteps[i].expected_status_code

\* the calls are made in the order of ItSteps, each only after every
\* earlier one got the status it expects
InOrderAfterSuccess ==
    /\ Len(it_log) <= Len(ItSteps)
    /\ \A i \in 1..Len(it_log) :
          /\ it_log[i].api_call = ItSteps[i].api_call
          /\ \A j \in 1..(i - 1) : ExpectedStatus(j)

\* C24: run_tests makes its six calls in the fixed order, a call only
\* after every earlier call got its expected status, and the first
\* unexpected status raises AssertionError, after which no call is made.
C24_OrderedStopAtFirstFailure ==
    /\ InOrderAfterSuccess
    /\ \A i \in 1..Len(it_log) :
          ~ExpectedStatus(i) =>
              /\ i = Len(it_log)
              /\ it_result = "AssertionError"

----------------------------------------------------------------------------
(***************************************************************************)
(* Reading a run of the script's list_data_assets.                         *)
(***************************************************************************)
RECURSIVE ItemsOf(_)
ItemsOf(ps) ==
    IF ps = <<>> THEN <<>>
    ELSE (IF "results" \in DOMAIN Head(ps).r
          THEN Head(ps).r.results ELSE <<>>) \o ItemsOf(Tail(ps))

\* the page asks for more and has items
AsksForMore(p) ==
    /\ DOMAIN p.r = {"has_more", "results"}
    /\ p.r.has_more
    /\ p.r.results # <<>>

\* the page is empty or says there is no more
LastPage(p) ==
    /\ DOMAIN p.r = {"has_more", "results"}
    /\ p.r.results = <<>> \/ ~p.r.has_more

\* every item of every fetched page is yielded, in order: what was yielded
\* is the start of the pages' items, and all of them once the generator
\* is past the last page fetched
YieldsEveryItem ==
    /\ Len(ls_yielded) <= Len(ItemsOf(ls_pages))
    /\ ls_yielded = SubSeq(ItemsOf(ls_pages), 1, Len(ls_yielded))
    /\ ls_pc # "yield" => ls_yielded = ItemsOf(ls_pages)

\* a page after the first is requested with the start advanced by the
\* count of the page before it
StartAdvances ==
    \A i \in 2..Len(ls_pages) :
        ls_pages[i].start =
            ls_pages[i - 1].start + Len(ls_pages[i - 1].r.results)

\* C25: the script's list_data_assets yields every item of every fetched
\* page in order, requests a further page, with start advanced, only while
\* the page before it had has_more true and a non-empty results list, and
\* is finished once a page is empty or has has_more false.
C25_ContinuesWhileMoreAndNonEmpty ==
    /\ YieldsEveryItem
    /\ StartAdvances
    /\ \A i \in 2..Len(ls_pages) : AsksForMore(ls_pages[i - 1])
    /\ (/\ ls_pages # <<>>
        /\ ls_pc # "yield"
        /\ LastPage(ls_pages[Len(ls_pages)])) => ls_pc = "done"

----------------------------------------------------------------------------
\* the call of get_page made its first attempt and all its retries and
\* none of them got status 200
Exhausted(ev) ==
    /\ Len(GetsOf(ev)) = max_retries + 1
    /\ \A i \in 1..Len(GetsOf(ev)) : ~GetsOf(ev)[i].ok

\* C26: once a page has used up its retries the call raises, whatever
\* the pages before it gave, and never returns a response; a response,
\* with status 200, is returned only when every page asked for was
\* fetched and the last of them is a page that ends the search.
C26_AllOrNothing ==
    /\ ((\E m \in 1..Len(trace) : Exhausted(trace[m])) /\ pc # "retry") =>
          /\ result.kind = "ConnectionError"
          /\ DOMAIN result = {"kind", "code"}
    /\ result.kind = "response" =>
          /\ result.status_code = 200
          /\ \A m \in 1..Len(trace) : ~Exhausted(trace[m])
          /\ Len(pages) = Len(trace)
          /\ pages # <<>>
          /\ ~Continues(pages[Len(pages)])

\* a page with results was fetched and the next one used up its retries
C26_Witness ==
    /\ result.kind = "ConnectionError"
    /\ all_results # <<>>
    /\ Len(pages) = 1
    /\ Exhausted(trace[2])

----------------------------------------------------------------------------
\* C28: the call opens one session, every request of it, first attempt or
\* retry, is made while that session is open, the session is closed when
\* the call has returned or raised ConnectionError, and a closed session
\* is neither used for a request nor opened again.
C28_OneSessionClosedAtEnd ==
    [][/\ trace' # trace => (session = "open" /\ session' = "open")
       /\ (session # "open" /\ session' = "open") =>
             (session = "none" /\ pc = "idle" /\ trace = <<>>)
       /\ session = "open" => session' \in {"open", "closed"}
       /\ session = "closed" => (session' = "closed" /\ trace' = trace)
       /\ pc' \in {"done", "raised"} <=> session' = "closed"]_vars

\* the call raised after the four requests of its second page, and the
\* session is closed
C28_Witness ==
    /\ session = "closed"
    /\ result.kind = "ConnectionError"
    /\ Len(trace) = 2
    /\ Len(GetsOf(trace[2])) = max_retries + 1

\* the call returned after a retried page, and the session is closed
C28_WitnessReturned ==
    /\ session = "closed"
    /\ result.kind = "response"
    /\ \E m \in 1..Len(trace) : Len(GetsOf(trace[m])) > 1

----------------------------------------------------------------------------
\* C27: against a server that keeps the pagination contract and fails no
\* page four times in a row, a call of search_all_data_assets ends by
\* returning, and the results it returns are the assets of the server,
\* each once, in the order of the server.
C27_TerminatesWithEveryAssetOnce ==
    (pc # "idle") ~>
        (/\ pc = "done"
         /\ result.kind = "response"
         /\ result.body.results = assets)

\* a list of more than one page was returned, one page of it after three
\* failures in a row
C27_Witness ==
    /\ pc = "done"
    /\ Len(assets) > MAX_SEARCH_BATCH_REQUEST
    /\ result.body.results = assets
    /\ \E m \in 1..Len(trace) : Len(GetsOf(trace[m])) = max_retries + 1

----------------------------------------------------------------------------
\* the arguments without config_file
WithoutConfigFile(d) == [k \in DOMAIN d \ {"config_file"} |-> d[k]]

\* C29: with aws_secrets_name and config_file both given, the named config
\* file counts for nothing: no file is opened, FileNotFoundError is not
\* raised even if the named file is missing, no field comes from the file,
\* and the outcome is the one the same arguments without config_file have.
C29_SecretReplacesConfigFile ==
    (Constructed /\ NamesSecret /\ NamesFile) =>
        /\ opened = <<>>
        /\ creds.outcome # "FileNotFoundError"
        /\ creds = Build(WithoutConfigFile(kwargs)).creds
        /\ secret.kind = "json" =>
              ResolvedFrom(<<FieldsOf(kwargs), secret.data>>)

\* the named config file is missing, the secret gives both fields and the
\* object is built from the secret
C29_Witness ==
    /\ Constructed /\ NamesSecret /\ NamesFile
    /\ fs[kwargs["config_file"]].kind = "missing"
    /\ Fields \cap DOMAIN kwargs = {}
    /\ secret.kind = "json" /\ DOMAIN secret.data = Fields
    /\ creds.outcome = "ok"
    /\ creds.token = <<"t", "s">>

\* the named config file gives both fields, the secret gives only the
\* domain, and the token is missing
C29_WitnessFileIgnored ==
    /\ Constructed /\ NamesSecret /\ NamesFile
    /\ fs[kwargs["config_file"]].kind = "json"
    /\ DOMAIN fs[kwargs["config_file"]].data = Fields
    /\ Fields \cap DOMAIN kwargs = {}
    /\ secret.kind = "json" /\ DOMAIN secret.data = {"domain"}
    /\ creds.outcome = "ValidationError"

====
